---- MODULE Spec2Model ----
(***************************************************************************)
(* QuasarConfigFile (app-webpack/lib/quasar-config-file.js): compiling the *)
(* quasar.config file with esbuild, loading the temporary compiled         *)
(* artifact, #computeConfig, and the watch-mode debounced update           *)
(* scheduler.                                                              *)
(*                                                                         *)
(* One QuasarConfigFile instance is modelled.  An async function is cut at *)
(* the awaits of external promises (esbuild, the config factory,           *)
(* opts.onAddress, extensionsRunner.runHook, createWebpackConfig): the     *)
(* code between two such awaits runs to completion as one action.  The     *)
(* debounce timer and the caller's watch() run between those actions.      *)
(* esbuild runs one build at a time and awaits the onEnd callbacks of a    *)
(* build before it starts the next one.                                    *)
(***************************************************************************)
EXTENDS Integers, Sequences, FiniteSets, TLC

\* Bound: number of esbuild compilations (build-finished events) of a run.
MaxCycles == 3

\* Bound: the clock ticks that make up the wait of the debounce timer
\* (1000 ms); time is counted in ticks and an await may take any number of
\* them.
DebounceTicks == 2

\* the longest asset list given by the user
MaxAssets == 3

\* the longest public path, in pieces
MaxPathLen == 4

\* ------------------------------------------------------------------------
\* Values

DefaultHost == "0.0.0.0"
DefaultPort == 8080

\* JS falsy host / port (absent from the object)
NoHost == ""
NoPort == 0

\* opts given to the constructor: watch callbacks present?, explicit
\* host/port, onAddress present?
Options ==
  { [watch |-> FALSE, host |-> NoHost, port |-> NoPort, onAddress |-> FALSE],
    [watch |-> TRUE,  host |-> NoHost, port |-> NoPort, onAddress |-> TRUE] }

\* ctx given to the constructor: ctx.dev and ctx.mode.pwa
Contexts == [dev : BOOLEAN, pwa : BOOLEAN]

\* What the config factory may resolve to.  w stands for the content of the
\* subtrees the snapshot encodes (build, ssr.pwa, pwa, ...); host/port are
\* devServer.host and devServer.port.  The content of the other subtrees is
\* not represented: two cycles differ at least by the cfg object they build
\* (id).
UserCfgs ==
  { [w |-> w, host |-> a[1], port |-> a[2]] :
      w \in {0, 1}, a \in {<<NoHost, NoPort>>, <<"h1", 9000>>} }

\* `undefined` for this.quasarConf / this.webpackConf, and the cfg slot when
\* no cycle is computing
UndefConf ==
  [id |-> 0, w |-> 0, host |-> NoHost, port |-> NoPort, derived |-> FALSE]

\* `undefined` for this.webpackConf
UndefPipeline == [of |-> 0, snapshot |-> <<>>]

\* no host and no port
NoAddr == [host |-> NoHost, port |-> NoPort]

\* no cycle has returned a configuration yet
NoneGood == [quasarConf |-> 0, webpackConf |-> 0, configSnapshot |-> <<>>]

\* `undefined` for this.address
NoAddress == [set |-> FALSE, from |-> NoAddr, to |-> NoAddr]

VARIABLES
  ctx, opts,            \* constructor arguments
  pc,                   \* where the instance's async code is suspended
  cycles,               \* esbuild compilations so far
  buildErrors,          \* result.errors.length !== 0 of the build just finished
  tempFile,             \* 0: tempFile absent; k: written by compilation k
  requireCache,         \* 0: no require.cache[tempFile]; k: module of compilation k
  isWatching,           \* #isWatching
  isFirst,              \* isFirst of the watcher plugin
  updateFn,             \* updateFn of the watcher plugin
  timers,               \* pending timers of scheduleUpdate
  timerLeft,            \* ticks until the pending timer is due
  sinceArrival,         \* ticks since a build-finished event after the first
                        \* last passed the guard of build.onEnd (counted up to
                        \* DebounceTicks)
  inBurst,              \* the build-finished event being handled arrived less
                        \* than DebounceTicks after one that scheduled an update
  configSnapshot,       \* #configSnapshot (<<>>: undefined)
  webpackConfChanged,   \* #webpackConfChanged: "undefined", "true", "false"
  quasarConf,           \* this.quasarConf
  webpackConf,          \* this.webpackConf: [of, snapshot] of the cfg given to
                        \* createWebpackConfig
  address,              \* this.address
  cfg,                  \* cfg of the running #computeConfig
  failOnError,          \* failOnError of the running #computeConfig
  promise,              \* the promise read() returned
  resolved,             \* what the promise was resolved with: the cfg object
                        \* (quasarConf), whether it was finished (derived),
                        \* and the cfg of the webpackConf
  ended,                \* how the last build-finished handling / #build ended
  thrown,               \* error that escaped the last handler ("none" if none)
  calls,                \* callbacks of opts.watch invoked so far
  lastCall,             \* the last callback of opts.watch invoked, with the
                        \* window it closed
  lastGood,             \* quasarConf, webpackConf and #configSnapshot when
                        \* #computeConfig last returned a configuration
  addr,                 \* addr of the running #computeConfig (the requested
                        \* devServer host and port)
  onAddressCalled,      \* opts.onAddress was called by the running
                        \* #computeConfig
  negotiated,           \* for each requested address, the result of the last
                        \* negotiation that succeeded for it
  window,               \* the cycles that called scheduleUpdate since the
                        \* timer last fired: [n, changed]
  npc,                  \* code followed statement by statement: the
                        \* statement reached ("off": not followed)
  nctx,                 \* its this.ctx
  nopts,                \* its this.opts
  nuser,                \* what the config factory resolved to (per handler:
                        \* the module it loaded)
  ncfg                  \* its cfg (for handlers: who holds the JS thread)

vars ==
  << ctx, opts, pc, cycles, buildErrors, tempFile, requireCache, isWatching,
     isFirst, updateFn, timers, timerLeft, sinceArrival, inBurst, configSnapshot, webpackConfChanged,
     quasarConf, webpackConf, address, cfg, failOnError, promise,
     resolved, ended, thrown, calls, lastCall, lastGood, addr, onAddressCalled,
     negotiated, window, npc, nctx, nopts, nuser, ncfg >>

instVars == << configSnapshot, webpackConfChanged, quasarConf, webpackConf, address >>
schedVars == << updateFn, timers, timerLeft, window >>
timeVars == << sinceArrival, inBurst >>
fileVars == << tempFile, requireCache >>
callVars == << calls, lastCall >>
addrVars == << addr, onAddressCalled, negotiated >>
normVars == << npc, nctx, nopts, nuser, ncfg >>
watchVars ==
  << ctx, opts, pc, cycles, buildErrors, fileVars, isWatching, isFirst,
     schedVars, timeVars, instVars, cfg, failOnError, promise, resolved,
     ended, thrown, callVars, lastGood, addrVars >>

\* the instance after construction
Constructed ==
  /\ ctx \in Contexts
  /\ opts \in Options
  /\ pc = "constructed"
  /\ cycles = 0
  /\ buildErrors = FALSE
  /\ tempFile = 0
  /\ requireCache = 0
  /\ isWatching = FALSE
  /\ isFirst = TRUE
  /\ updateFn = "undefined"
  /\ timers = 0
  /\ timerLeft = 0
  /\ sinceArrival = DebounceTicks
  /\ inBurst = FALSE
  /\ configSnapshot = <<>>
  /\ webpackConfChanged = "undefined"
  /\ quasarConf = UndefConf
  /\ webpackConf = UndefPipeline
  /\ address = NoAddress
  /\ cfg = UndefConf
  /\ failOnError = TRUE
  /\ promise = "none"
  /\ resolved = [quasarConf |-> 0, derived |-> FALSE, webpackConf |-> 0]
  /\ ended = "none"
  /\ thrown = "none"
  /\ calls = 0
  /\ lastCall = [fn |-> "none", n |-> 0, changed |-> FALSE]
  /\ lastGood = NoneGood
  /\ addr = NoAddr
  /\ onAddressCalled = FALSE
  /\ negotiated = {}
  /\ window = [n |-> 0, changed |-> FALSE]

\* no #computeConfig is followed statement by statement
NormOff ==
  /\ npc = "off"
  /\ nctx = [dev |-> FALSE]
  /\ nopts = [host |-> NoHost, port |-> NoPort, onAddress |-> FALSE]
  /\ nuser = [host |-> NoHost, port |-> NoPort]
  /\ ncfg = [host |-> NoHost, port |-> NoPort]

Init == Constructed /\ NormOff

\* ------------------------------------------------------------------------
\* Pure helpers

\* a resolution that lets the configured value win over this.opts
RequestedHost_CfgFirst(o, c) ==
  IF c.host # NoHost THEN c.host
  ELSE IF o.host # NoHost THEN o.host ELSE DefaultHost

\* host #computeConfig requests: opts.host, else cfg.devServer.host, else the
\* default
RequestedHost(o, c) ==
  IF o.host # NoHost THEN o.host
  ELSE IF c.host = NoHost THEN DefaultHost ELSE c.host

\* port #computeConfig requests: opts.port, else cfg.devServer.port, else the
\* default
RequestedPort(o, c) ==
  IF o.port # NoPort THEN o.port
  ELSE IF c.port = NoPort THEN DefaultPort ELSE c.port

\* a cache check that forgets what was requested
CacheHit_AnyRequest(a, req) == a.set

\* this.address && this.address.from.host === host && ...from.port === port
CacheHit(a, req) == a.set /\ a.from.host = req.host /\ a.from.port = req.port

\* what opts.onAddress may resolve to for a requested address, besides null:
\* the address itself or the next port on the same host
Negotiable(req) == { req, [req EXCEPT !.port = @ + 1] }

\* the snapshot: the encoded whitelisted subtrees, devServer among them
Encode(c) == << c.w, c.host, c.port >>

\* #webpackConfChanged after the snapshot of a cycle is compared with the
\* stored one
ChangedFlag(old, new, flag) ==
  IF old # <<>> THEN (IF new # old THEN "true" ELSE "false") ELSE flag

\* createWebpackConfig(cfg): identified by the cfg object it was generated
\* from and by the content of that cfg the pipeline depends on
CreateWebpackConfig(c) == [of |-> c.id, snapshot |-> Encode(c)]

\* a severity that follows the last cycle alone
NextUpdateFn_NoEscalation(u, changed) ==
  IF changed = "true" THEN "onBuildChange" ELSE "onAppChange"

\* the severity the build-finished handler stores before scheduleUpdate()
NextUpdateFn(u, changed) ==
  IF u = "onBuildChange" \/ changed = "true" THEN "onBuildChange" ELSE "onAppChange"

\* a plain setTimeout: every call arms one more timer
Debounce_Stack(t) == t + 1

\* lodash debounce: a call cancels the pending timer and arms a new one
Debounce(t) == 1

\* the exits the derivations after the snapshot can take: they finish, one of
\* them throws, or (pwa mode) process.exit(1) on an empty icon list or an
\* invalid workbox mode
DeriveOutcomes(c) == {"ok", "throws"} \cup (IF c.pwa THEN {"exit"} ELSE {})

\* the value { quasarConf, webpackConf } a promise is resolved with
Resolution(qc, wc) ==
  [quasarConf |-> qc.id, derived |-> qc.derived, webpackConf |-> wc.of]

\* ------------------------------------------------------------------------
\* The ways a call or a handler ends.  Each sets pc, isFirst, the scheduler,
\* the promise, the record of how it ended, and drops the cfg of the cycle.

\* fatal(), process.exit(1): the process exits
Exit(how) ==
  /\ pc' = "dead"
  /\ ended' = how
  /\ thrown' = "none"
  /\ cfg' = UndefConf
  /\ UNCHANGED << isFirst, schedVars, promise, resolved, lastGood >>

\* an early return clears the pending timer
TimersAfterReturn_Cleared(t) == 0

\* the early returns do not touch the timer
TimersAfterReturn(t) == t

\* the handler returns early (after warn(), or silently when not armed)
Stopped(how) ==
  /\ pc' = "idle"
  /\ ended' = how
  /\ thrown' = "none"
  /\ cfg' = UndefConf
  /\ timers' = TimersAfterReturn(timers)
  /\ UNCHANGED << isFirst, updateFn, timerLeft, window, promise, resolved,
                  lastGood >>

\* an error leaves #computeConfig: read() rejects (one-shot), the
\* build-finished handler rejects (watch)
Escaped(e) ==
  /\ ended' = "threw"
  /\ thrown' = e
  /\ cfg' = UndefConf
  /\ IF opts.watch
       THEN pc' = "idle" /\ UNCHANGED promise
       ELSE pc' = "done" /\ promise' = "rejected"
  /\ UNCHANGED << isFirst, schedVars, resolved, lastGood >>

\* #computeConfig returned undefined to the build-finished handler:
\* `const { quasarConf, webpackConf } = undefined` throws a TypeError
ReturnedUndefined ==
  /\ pc' = "idle"
  /\ ended' = "phaseA"
  /\ thrown' = "TypeError"
  /\ cfg' = UndefConf
  /\ UNCHANGED << isFirst, schedVars, promise, resolved, lastGood >>

\* a Phase A error: fatal if failOnError, else warn and return undefined
PhaseAReject(foe) == IF foe THEN Exit("phaseAFatal") ELSE ReturnedUndefined

\* the cycle goes on to its next await
Continue(at, c) ==
  /\ pc' = at
  /\ cfg' = c
  /\ ended' = "running"
  /\ thrown' = "none"
  /\ UNCHANGED << isFirst, schedVars, promise, resolved, lastGood >>

\* #computeConfig returned { quasarConf: qc, webpackConf: wc } with
\* #configSnapshot = snapshot and #webpackConfChanged = changed
Returned(qc, wc, snapshot, changed) ==
  /\ cfg' = UndefConf
  /\ lastGood' = [quasarConf |-> qc.id, webpackConf |-> wc.of,
                  configSnapshot |-> snapshot]
  /\ thrown' = "none"
  /\ IF ~opts.watch
       THEN /\ pc' = "done"
            /\ promise' = "resolved"
            /\ resolved' = Resolution(qc, wc)
            /\ ended' = "resolved"
            /\ UNCHANGED << isFirst, schedVars >>
       ELSE IF isFirst
         THEN /\ isFirst' = FALSE
              /\ promise' = "resolved"
              /\ resolved' = IF promise = "resolved" THEN resolved
                                                       ELSE Resolution(qc, wc)
              /\ pc' = "idle"
              /\ ended' = "first"
              /\ UNCHANGED schedVars
         ELSE /\ updateFn' = NextUpdateFn(updateFn, changed)
              /\ timers' = Debounce(timers)
              /\ timerLeft' = DebounceTicks
              /\ window' = [n |-> window.n + 1,
                            changed |-> window.changed \/ changed = "true"]
              /\ pc' = "idle"
              /\ ended' = "scheduled"
              /\ UNCHANGED << isFirst, promise, resolved >>

\* #computeConfig up to its first await: the export is checked, then the
\* factory is called and awaited
ComputeConfig(isFn, foe) ==
  IF ~isFn
    THEN PhaseAReject(foe) /\ UNCHANGED << failOnError, addr, onAddressCalled >>
    ELSE /\ Continue("factory", UndefConf)
         /\ failOnError' = foe
         /\ addr' = NoAddr
         /\ onAddressCalled' = FALSE

\* ------------------------------------------------------------------------
\* Actions

\* read(): #build awaits esBuild; #buildAndWatch installs the plugin, starts
\* the esbuild watch and returns the promise of the first build
Read ==
  /\ pc = "constructed"
  /\ pc' = IF opts.watch THEN "idle" ELSE "compiling"
  /\ promise' = "pending"
  /\ UNCHANGED << normVars, ctx, opts, cycles, buildErrors, fileVars, isWatching, isFirst,
                  schedVars, instVars, cfg, failOnError, resolved, ended,
                  thrown, callVars, lastGood, addrVars, timeVars >>

\* watch(), called by the owner of a watching instance
Watch ==
  /\ opts.watch
  /\ pc \notin {"constructed", "dead"}
  /\ ~isWatching
  /\ isWatching' = TRUE
  /\ UNCHANGED << normVars, ctx, opts, pc, cycles, buildErrors, fileVars, isFirst,
                  schedVars, instVars, cfg, failOnError, promise, resolved,
                  ended, thrown, callVars, lastGood, addrVars, timeVars >>

\* esbuild compiles the quasar.config file: on success it writes the outfile
EsBuild ==
  /\ \/ pc = "compiling"
     \/ pc = "idle" /\ opts.watch
  /\ cycles < MaxCycles
  /\ \E ok \in BOOLEAN :
       /\ buildErrors' = ~ok
       /\ tempFile' = IF ok THEN cycles + 1 ELSE tempFile
  /\ cycles' = cycles + 1
  /\ pc' = "built"
  /\ UNCHANGED << normVars, ctx, opts, requireCache, isWatching, isFirst, schedVars,
                  instVars, cfg, failOnError, promise, resolved, ended,
                  thrown, callVars, lastGood, addrVars, timeVars >>

\* #build after esBuild settled
Build ==
  /\ pc = "built"
  /\ ~opts.watch
  /\ IF buildErrors
       THEN /\ tempFile' = 0
            /\ Exit("fatal")
            /\ UNCHANGED << requireCache, failOnError, addr, onAddressCalled >>
       ELSE \E load \in {"throws", "notfn", "fn"} :
              IF load = "throws"
                THEN /\ tempFile' = 0
                     /\ Exit("fatal")
                     /\ UNCHANGED << requireCache, failOnError, addr,
                                     onAddressCalled >>
                ELSE /\ requireCache' = IF requireCache # 0 THEN requireCache
                                                            ELSE tempFile
                     /\ tempFile' = 0
                     /\ ComputeConfig(load = "fn", TRUE)
  /\ UNCHANGED << normVars, ctx, opts, cycles, buildErrors, isWatching, instVars,
                  callVars, negotiated, timeVars >>

\* a guard that lets every build-finished event through
Armed_Always(first, watching) == TRUE

\* a guard that asks for watch() also on the first build
Armed_WatchOnly(first, watching) == watching

\* the guard of build.onEnd: the handler goes on for the first build and
\* once watch() was called
Armed(first, watching) == ~(first = FALSE /\ watching = FALSE)

\* build.onEnd up to the first await of #computeConfig
OnEnd ==
  /\ pc = "built"
  /\ opts.watch
  /\ sinceArrival' = IF isFirst \/ ~Armed(isFirst, isWatching) THEN sinceArrival
                                                                 ELSE 0
  /\ inBurst' = (Armed(isFirst, isWatching) /\ ended = "scheduled"
                   /\ sinceArrival < DebounceTicks)
  /\ IF ~Armed(isFirst, isWatching)
       THEN /\ Stopped("ignored")
            /\ UNCHANGED << fileVars, failOnError, addr, onAddressCalled >>
       ELSE IF buildErrors
         THEN /\ requireCache' = 0
              /\ tempFile' = 0
              /\ IF isFirst THEN Exit("fatal") ELSE Stopped("compileWarn")
              /\ UNCHANGED << failOnError, addr, onAddressCalled >>
         ELSE \E load \in {"throws", "notfn", "fn"} :
                /\ requireCache' = 0
                /\ tempFile' = 0
                /\ IF load = "throws"
                     THEN /\ IF isFirst THEN Exit("fatal") ELSE Stopped("loadWarn")
                          /\ UNCHANGED << failOnError, addr, onAddressCalled >>
                     ELSE ComputeConfig(load = "fn", isFirst)
  /\ UNCHANGED << normVars, ctx, opts, cycles, buildErrors, isWatching, instVars,
                  callVars, negotiated >>

\* this.address and the record of negotiations after `to` was obtained for
\* the requested address
Cached(req, to) == [set |-> TRUE, from |-> req, to |-> to]
Recorded(req, to) ==
  { x \in negotiated : x.from # req } \cup { [from |-> req, to |-> to] }

\* #computeConfig from the factory's result to the next await: Phase A checks
\* of the result, the merge over the skeleton, host/port resolution and the
\* address cache
Factory ==
  /\ pc = "factory"
  /\ \E res \in {"throws", "nonobject", "object"}, r \in UserCfgs :
       IF res # "object"
         THEN /\ PhaseAReject(failOnError)
              /\ UNCHANGED << address, addrVars >>
         ELSE LET merged == [id |-> cycles, w |-> r.w,
                             host |-> r.host, port |-> r.port, derived |-> FALSE]
                  req == [host |-> RequestedHost(opts, merged),
                          port |-> RequestedPort(opts, merged)]
                  with(a) == [merged EXCEPT !.host = a.host, !.port = a.port]
              IN  IF ~ctx.dev
                    THEN /\ Continue("hook", merged)
                         /\ UNCHANGED << address, addrVars >>
                    ELSE /\ addr' = req
                         /\ IF CacheHit(address, req)
                              THEN /\ Continue("hook", with(address.to))
                                   /\ UNCHANGED << address, onAddressCalled,
                                                   negotiated >>
                              ELSE IF opts.onAddress
                                THEN /\ Continue("address", with(req))
                                     /\ onAddressCalled' = TRUE
                                     /\ UNCHANGED << address, negotiated >>
                                ELSE /\ Continue("hook", with(req))
                                     /\ address' = Cached(req, req)
                                     /\ negotiated' = Recorded(req, req)
                                     /\ UNCHANGED onAddressCalled
  /\ UNCHANGED << normVars, ctx, opts, cycles, buildErrors, fileVars, isWatching,
                  configSnapshot, webpackConfChanged, quasarConf, webpackConf,
                  failOnError, callVars, timeVars >>

\* a null test that comes after the store of this.address
OnNull_AfterStore(a, req) == Cached(req, req)

\* this.address when opts.onAddress resolved to null: the throw comes before
\* the store
OnNull(a, req) == a

\* opts.onAddress(addr) settled: null throws NETWORK_ERROR, else the result
\* is merged into cfg.devServer and cached in this.address
OnAddress ==
  /\ pc = "address"
  /\ \/ /\ Escaped("NETWORK_ERROR")
        /\ address' = OnNull(address, addr)
        /\ UNCHANGED negotiated
     \/ \E to \in Negotiable(addr) :
          /\ Continue("hook", [cfg EXCEPT !.host = to.host, !.port = to.port])
          /\ address' = Cached(addr, to)
          /\ negotiated' = Recorded(addr, to)
  /\ UNCHANGED << normVars, ctx, opts, cycles, buildErrors, fileVars, isWatching,
                  configSnapshot, webpackConfChanged, quasarConf, webpackConf,
                  failOnError, callVars, addr, onAddressCalled, timeVars >>

\* a cfg stored before its derivations ran
Finished_Partial(c) == c

\* the finished configuration: cfg after every derivation
Finished(c) == [c EXCEPT !.derived = TRUE]

\* what the hook functions registered with __addHook may do with the cfg
\* they are given: nothing that shows, mutate it, throw
HookOutcomes == {"ok", "mutates", "throws"}

\* a snapshot taken of the cfg as it was before the hook run
Snapshotted_PreHook(c, hooked) == c

\* the cfg the snapshot is taken of: the hook run has been awaited
Snapshotted(c, hooked) == hooked

\* a process.exit(1) that comes after the store of this.quasarConf
AtExit_AfterStore(qc, c) == Finished(c)

\* this.quasarConf when the pwa checks call process.exit(1): the store has
\* not been reached
AtExit(qc, c) == qc

\* extensionsRunner.runHook settled; then the snapshot, the derivations and
\* the store of this.quasarConf, up to the await of createWebpackConfig (or to
\* the end of the handler when the pipeline configuration is kept)
Hook ==
  /\ pc = "hook"
  /\ \E h \in HookOutcomes :
       IF h = "throws"
         THEN /\ Escaped("HookError")
              /\ UNCHANGED << configSnapshot, webpackConfChanged, quasarConf >>
         ELSE LET hooked == IF h = "mutates" THEN [cfg EXCEPT !.w = 1 - @] ELSE cfg
                  newConfigSnapshot == Encode(Snapshotted(cfg, hooked))
                  changed == IF opts.watch
                               THEN ChangedFlag(configSnapshot, newConfigSnapshot,
                                                webpackConfChanged)
                               ELSE webpackConfChanged
              IN  /\ configSnapshot' = IF opts.watch THEN newConfigSnapshot
                                                     ELSE configSnapshot
                  /\ webpackConfChanged' = changed
                  /\ \E d \in DeriveOutcomes(ctx) :
                       CASE d = "exit" ->
                              /\ Exit("exit")
                              /\ quasarConf' = AtExit(quasarConf, hooked)
                         [] d = "throws" ->
                              Escaped("DeriveError") /\ UNCHANGED quasarConf
                         [] d = "ok" ->
                              /\ quasarConf' = Finished(hooked)
                              /\ IF changed # "false"
                                   THEN Continue("generate", Finished(hooked))
                                   ELSE Returned(Finished(hooked), webpackConf,
                                                 configSnapshot', changed)
  /\ UNCHANGED << normVars, ctx, opts, cycles, buildErrors, fileVars, isWatching,
                  webpackConf, address, failOnError, callVars, addrVars, timeVars >>

\* createWebpackConfig(cfg) settled
Generate ==
  /\ pc = "generate"
  /\ \/ Escaped("GenerateError") /\ UNCHANGED webpackConf
     \/ /\ webpackConf' = CreateWebpackConfig(cfg)
        /\ Returned(quasarConf, CreateWebpackConfig(cfg), configSnapshot,
                    webpackConfChanged)
  /\ UNCHANGED << normVars, ctx, opts, cycles, buildErrors, fileVars, isWatching,
                  configSnapshot, webpackConfChanged, quasarConf, address,
                  failOnError, callVars, addrVars, timeVars >>

\* the debounced function of scheduleUpdate runs: opts.watch[updateFn]() and
\* updateFn = null; opts.watch[null]() would be an uncaught TypeError
Timer ==
  /\ timers > 0
  /\ timerLeft = 0
  /\ pc # "dead"
  /\ timers' = timers - 1
  /\ timerLeft' = 0
  /\ IF updateFn \in {"onAppChange", "onBuildChange"}
       THEN /\ calls' = calls + 1
            /\ lastCall' = [fn |-> updateFn, n |-> window.n,
                            changed |-> window.changed]
            /\ updateFn' = "null"
            /\ pc' = pc
       ELSE /\ pc' = "dead"
            /\ UNCHANGED << calls, lastCall, updateFn >>
  /\ window' = [n |-> 0, changed |-> FALSE]
  /\ UNCHANGED << normVars, ctx, opts, cycles, buildErrors, fileVars, isWatching, isFirst,
                  instVars, cfg, failOnError, promise, resolved, ended,
                  thrown, lastGood, addrVars, timeVars >>

\* a tick of the clock; a timer that is due runs before the next tick
Tick ==
  /\ opts.watch
  /\ pc \notin {"constructed", "dead"}
  /\ ~(timers > 0 /\ timerLeft = 0)
  /\ timers > 0 \/ sinceArrival < DebounceTicks
  /\ timerLeft' = IF timers > 0 THEN timerLeft - 1 ELSE timerLeft
  /\ sinceArrival' = IF sinceArrival < DebounceTicks THEN sinceArrival + 1
                                                      ELSE sinceArrival
  /\ UNCHANGED << normVars, ctx, opts, pc, cycles, buildErrors, fileVars, isWatching,
                  isFirst, updateFn, timers, window, inBurst, instVars, cfg,
                  failOnError, promise, resolved, ended, thrown, callVars,
                  lastGood, addrVars >>

Next ==
  \/ Tick
  \/ Read
  \/ Watch
  \/ EsBuild
  \/ Build
  \/ OnEnd
  \/ Factory
  \/ OnAddress
  \/ Hook
  \/ Generate
  \/ Timer

Spec == Init /\ [][Next]_vars

\* ------------------------------------------------------------------------
\* #computeConfig of a first cycle, the resolution of the dev-server address
\* followed statement by statement

\* this.opts.host, this.opts.port and this.opts.onAddress
AddressOptions ==
  [host : {NoHost, "h2"}, port : {NoPort, 7000}, onAddress : BOOLEAN]

\* devServer.host and devServer.port of the factory's result
AddressCfgs == [host : {NoHost, "h1"}, port : {NoPort, 9000}]

\* #computeConfig has merged the factory's result over the skeleton
AddressInit ==
  /\ Constructed
  /\ ctx = [dev |-> FALSE, pwa |-> FALSE]
  /\ ~opts.watch
  /\ npc = "merged"
  /\ nctx \in [dev : BOOLEAN]
  /\ nopts \in AddressOptions
  /\ nuser \in AddressCfgs
  /\ ncfg = nuser

\* if (this.ctx.dev): cfg.devServer.host and cfg.devServer.port are resolved
ResolveHostPort ==
  /\ npc = "merged"
  /\ IF nctx.dev
       THEN /\ ncfg' = [host |-> RequestedHost(nopts, ncfg),
                        port |-> RequestedPort(nopts, ncfg)]
            /\ npc' = "requested"
       ELSE /\ ncfg' = ncfg
            /\ npc' = "hook"
  /\ UNCHANGED << nctx, nopts, nuser, watchVars >>

\* the address cache is looked up (here this.address is undefined), then
\* opts.onAddress is awaited when there is one
Negotiate ==
  /\ npc = "requested"
  /\ IF CacheHit(address, ncfg)
       THEN ncfg' = address.to /\ npc' = "hook"
       ELSE IF nopts.onAddress
         THEN \/ npc' = "NETWORK_ERROR" /\ ncfg' = ncfg
              \/ \E to \in Negotiable(ncfg) : ncfg' = to /\ npc' = "hook"
         ELSE ncfg' = ncfg /\ npc' = "hook"
  /\ UNCHANGED << nctx, nopts, nuser, watchVars >>

AddressNext ==
  \/ ResolveHostPort
  \/ Negotiate

AddressSpec == AddressInit /\ [][AddressNext]_vars

\* ------------------------------------------------------------------------
\* The snapshot of two consecutive cycles of a watch session, computed from
\* their post-hook configurations

\* JS values of a field of the configuration.  Text is a sequence of pieces:
\* concatenation is \o.
JsValues ==
  { [t |-> "number",    v |-> <<"1">>],
    [t |-> "string",    v |-> <<"a">>],
    [t |-> "function",  v |-> <<"a">>],
    [t |-> "function",  v |-> <<"b">>],
    [t |-> "RegExp",    v |-> <<"a">>],
    [t |-> "RegExp",    v |-> <<"b">>],
    [t |-> "undefined", v |-> <<>>] }

\* the replacer of encode: a function becomes the string `/fn(<source>)`
Replacer(value) ==
  IF value.t = "function"
    THEN [t |-> "string", v |-> <<"/fn(">> \o value.v \o <<")">>]
    ELSE value

\* JSON.stringify of a value the replacer returned: a RegExp has no own
\* enumerable property
Stringify(value) ==
  CASE value.t = "number" -> value.v
    [] value.t = "string" -> <<"\"">> \o value.v \o <<"\"">>
    [] value.t = "RegExp" -> <<"{", "}">>
    [] OTHER -> <<>>

\* encode(obj) for an object with the one property x: a property whose value
\* is undefined is left out
encode(obj) ==
  <<"{">>
  \o (IF Replacer(obj.x).t = "undefined"
        THEN <<>>
        ELSE <<"\"x\":">> \o Stringify(Replacer(obj.x)))
  \o <<"}">>

\* newConfigSnapshot: build, ssr.pwa and framework.autoImportComponentCase
\* of the eight entries, joined with no separator
NewConfigSnapshot(c) ==
  encode(c.build) \o (IF c.ssrPwa THEN <<"true">> ELSE <<>>)
                  \o c.autoImportComponentCase

\* post-hook configurations: build.x, ssr.pwa,
\* framework.autoImportComponentCase, and a field the snapshot leaves out
SnapshotCfgs ==
  [build : [x : JsValues], ssrPwa : BOOLEAN,
   autoImportComponentCase : {<<"kebab">>, <<"pascal">>}, animations : {0, 1}]

\* the part of a configuration the snapshot is about
Whitelisted(c) == << c.build, c.ssrPwa, c.autoImportComponentCase >>

\* the first cycle of a watch session has run its hooks
SnapshotInit ==
  /\ Constructed
  /\ ctx = [dev |-> FALSE, pwa |-> FALSE]
  /\ opts.watch
  /\ npc = "first"
  /\ nctx = [dev |-> FALSE]
  /\ nopts = [host |-> NoHost, port |-> NoPort, onAddress |-> FALSE]
  /\ nuser \in SnapshotCfgs \X SnapshotCfgs
  /\ ncfg = nuser[1]

\* if (this.opts.watch !== void 0): the snapshot of cfg is taken, compared
\* with the stored one and stored
TakeSnapshot ==
  /\ npc \in {"first", "second"}
  /\ webpackConfChanged' = ChangedFlag(configSnapshot, NewConfigSnapshot(ncfg),
                                       webpackConfChanged)
  /\ configSnapshot' = NewConfigSnapshot(ncfg)
  /\ npc' = "snapshot"
  /\ UNCHANGED << nctx, nopts, nuser, ncfg, ctx, opts, pc, cycles, buildErrors,
                  fileVars, isWatching, isFirst, schedVars, timeVars,
                  quasarConf, webpackConf, address, cfg, failOnError, promise,
                  resolved, ended, thrown, callVars, lastGood, addrVars >>

\* the next cycle has run its hooks
NextCycle ==
  /\ npc = "snapshot"
  /\ ncfg = nuser[1]
  /\ nuser[2] # nuser[1]
  /\ ncfg' = nuser[2]
  /\ npc' = "second"
  /\ UNCHANGED << nctx, nopts, nuser, watchVars >>

SnapshotNext ==
  \/ TakeSnapshot
  \/ NextCycle

SnapshotSpec == SnapshotInit /\ [][SnapshotNext]_vars

\* ------------------------------------------------------------------------
\* #computeConfig, the derivations of cfg.build followed statement by
\* statement for one cycle.  A JS value is a string here ("undefined",
\* "true", "false", ...); a path is a sequence of pieces, "/" being a piece
\* of its own, and the empty sequence stands for '' and undefined alike.

Modes == {"spa", "pwa", "ssr", "cordova", "capacitor", "electron", "bex"}

\* this.ctx: dev (prod is its negation), debug, modeName (mode[modeName] is
\* the one mode flag set)
BuildContexts == [dev : BOOLEAN, debug : BOOLEAN, modeName : Modes]

\* the public paths a quasar.config file may give
UserPaths ==
  { <<>>, <<"app">>, <<"/", "app", "/">>, <<"http:", "/", "/", "cdn", "/", "app">> }

\* build of the factory's result
UserBuilds ==
  [minify : {"undefined", "true"}, gzip : {"undefined", "true"},
   sourceMap : {"undefined", "false"},
   vueRouterMode : {"undefined", "hash", "history"},
   htmlFilename : {"undefined", "app.html"}, publicPath : UserPaths]

Bool(b) == IF b THEN "true" ELSE "false"

\* the defaults cfg.build is merged over
BuildDefaults(c) ==
  [minify |-> Bool(~c.dev /\ c.modeName # "bex"), gzip |-> "undefined",
   sourceMap |-> Bool(c.dev), vueRouterMode |-> "hash",
   htmlFilename |-> "index.html", publicPath |-> <<>>]

\* merge(defaults, build): what the user defined wins (the defaults hold no
\* publicPath)
Merge(defaults, build) ==
  [f \in DOMAIN defaults |->
     IF f = "publicPath" THEN build[f]
     ELSE IF build[f] # "undefined" THEN build[f] ELSE defaults[f]]

\* an assignment under which what cfg.build already holds wins
ObjectAssign_Under(target, source) ==
  [f \in DOMAIN target |->
     IF f \in DOMAIN source /\ target[f] = "undefined" THEN source[f]
     ELSE target[f]]

\* Object.assign(target, source)
ObjectAssign(target, source) ==
  [f \in DOMAIN target |-> IF f \in DOMAIN source THEN source[f] ELSE target[f]]

\* a test that knows http only
IsUrl_HttpOnly(path) ==
  /\ Len(path) >= 3
  /\ path[1] = "http:"
  /\ path[2] = "/"
  /\ path[3] = "/"

\* urlRegex.test(path): /^http(s)?:\/\//
IsUrl(path) ==
  /\ Len(path) >= 3
  /\ path[1] \in {"http:", "https:"}
  /\ path[2] = "/"
  /\ path[3] = "/"

formatPublicPath(path) ==
  IF path = <<>> THEN <<>>
  ELSE LET slashed == IF path[Len(path)] # "/" THEN Append(path, "/") ELSE path
       IN  IF IsUrl(slashed) THEN slashed
           ELSE IF Head(slashed) # "/" THEN <<"/">> \o slashed
           ELSE slashed

\* every mode
PublicPathModes_All == Modes

\* the modes in which the configured public path is used
PublicPathModes == {"spa", "pwa", "ssr"}

\* #computeConfig has merged the factory's result over the skeleton
BuildInit ==
  /\ Constructed
  /\ ctx = [dev |-> FALSE, pwa |-> FALSE]
  /\ ~opts.watch
  /\ npc = "merged"
  /\ nctx \in BuildContexts
  /\ nopts = [host |-> NoHost, port |-> NoPort, onAddress |-> FALSE]
  /\ nuser \in UserBuilds
  /\ ncfg = nuser

\* cfg.build = merge({ defaults }, cfg.build)
MergeBuild ==
  /\ npc = "merged"
  /\ ncfg' = Merge(BuildDefaults(nctx), ncfg)
  /\ npc' = "defaults"
  /\ UNCHANGED << nctx, nopts, nuser, watchVars >>

\* the overrides of dev, debug, ssr and the cordova, capacitor, electron and
\* bex modes
ModeOverrides ==
  /\ npc = "defaults"
  /\ LET b1 == IF nctx.dev \/ nctx.debug
                 THEN ObjectAssign(ncfg, [minify |-> "false", gzip |-> "false"])
                 ELSE ncfg
         b2 == IF nctx.debug THEN ObjectAssign(b1, [sourceMap |-> "true"])
                             ELSE b1
         b3 == IF nctx.modeName = "ssr"
                 THEN ObjectAssign(b2, [vueRouterMode |-> "history",
                                        gzip |-> "false"])
                 ELSE IF nctx.modeName \in {"cordova", "capacitor", "electron", "bex"}
                   THEN ObjectAssign(b2, [htmlFilename |-> "index.html",
                                          vueRouterMode |-> "hash",
                                          gzip |-> "false"])
                   ELSE b2
     IN  ncfg' = b3
  /\ npc' = "overridden"
  /\ UNCHANGED << nctx, nopts, nuser, watchVars >>

\* cfg.build.publicPath
PublicPath ==
  /\ npc = "overridden"
  /\ ncfg' = [ncfg EXCEPT !.publicPath =
               IF ncfg.publicPath # <<>> /\ nctx.modeName \in PublicPathModes
                 THEN formatPublicPath(ncfg.publicPath)
                 ELSE IF ncfg.vueRouterMode = "hash" THEN <<>> ELSE <<"/">>]
  /\ npc' = "publicPath"
  /\ UNCHANGED << nctx, nopts, nuser, watchVars >>

\* if (cfg.build.gzip): the gzip options are filled in
Gzip ==
  /\ npc = "publicPath"
  /\ ncfg' = [ncfg EXCEPT !.gzip =
               IF @ \in {"undefined", "false"} THEN @ ELSE "options"]
  /\ npc' = "finished"
  /\ UNCHANGED << nctx, nopts, nuser, watchVars >>

BuildNext ==
  \/ MergeBuild
  \/ ModeOverrides
  \/ PublicPath
  \/ Gzip

BuildSpec == BuildInit /\ [][BuildNext]_vars

\* ------------------------------------------------------------------------
\* The build-finished handlers of one watch session on the JS thread,
\* followed statement by statement.  Here esbuild does not wait for a
\* handler's promise: a build may finish, and its handler start, while
\* earlier handlers are suspended at `await this.#computeConfig`.  npc gives
\* each handler's position, ncfg the handler that holds the thread (0: none),
\* nuser the module each handler got from require(tempFile).

Handlers == 1 .. MaxCycles

\* the handler runs on after require(tempFile) without giving up the thread
\* to an await
ThreadAfterLoad_Awaits(h) == 0

\* no await between require(tempFile) and removeSync(tempFile)
ThreadAfterLoad(h) == h

LoadInit ==
  /\ Constructed
  /\ ctx = [dev |-> FALSE, pwa |-> FALSE]
  /\ opts.watch
  /\ npc = [h \in Handlers |-> "none"]
  /\ nctx = [dev |-> FALSE]
  /\ nopts = [host |-> NoHost, port |-> NoPort, onAddress |-> FALSE]
  /\ nuser = [h \in Handlers |-> 0]
  /\ ncfg = 0

loadFrame ==
  << ctx, opts, pc, buildErrors, schedVars, timeVars, instVars, cfg,
     failOnError, promise, resolved, ended, thrown, callVars, lastGood,
     addrVars, nctx, nopts >>

\* watch()
LoadWatch ==
  /\ ~isWatching
  /\ isWatching' = TRUE
  /\ UNCHANGED << loadFrame, cycles, fileVars, isFirst, npc, nuser, ncfg >>

\* esbuild reports the end of its next build: with its outfile written, or
\* with errors
LoadEsBuild ==
  /\ cycles < MaxCycles
  /\ cycles' = cycles + 1
  /\ \/ /\ tempFile' = cycles + 1
        /\ npc' = [npc EXCEPT ![cycles + 1] = "queued"]
     \/ /\ tempFile' = tempFile
        /\ npc' = [npc EXCEPT ![cycles + 1] = "queuedErrors"]
  /\ UNCHANGED << loadFrame, requireCache, isWatching, isFirst, nuser, ncfg >>

\* build.onEnd is called for the oldest reported build once the thread is
\* free; the guard
Enter(h) ==
  /\ npc[h] \in {"queued", "queuedErrors"}
  /\ \A g \in Handlers : g < h => npc[g] \notin {"queued", "queuedErrors"}
  /\ ncfg = 0
  /\ IF Armed(isFirst, isWatching)
       THEN /\ npc' = [npc EXCEPT ![h] = IF npc[h] = "queued"
                                           THEN "entered"
                                           ELSE "enteredErrors"]
            /\ ncfg' = h
       ELSE npc' = [npc EXCEPT ![h] = "ignored"] /\ ncfg' = 0
  /\ UNCHANGED << loadFrame, cycles, fileVars, isWatching, isFirst, nuser >>

\* delete require.cache[ tempFile ]
Invalidate(h) ==
  /\ npc[h] \in {"entered", "enteredErrors"}
  /\ ncfg = h
  /\ requireCache' = 0
  /\ npc' = [npc EXCEPT ![h] = IF npc[h] = "entered"
                                 THEN "invalidated"
                                 ELSE "invalidatedErrors"]
  /\ UNCHANGED << loadFrame, cycles, tempFile, isWatching, isFirst, nuser,
                  ncfg >>

\* result.errors.length !== 0: removeSync(tempFile), warn or fatal, return
CompileErrors(h) ==
  /\ npc[h] = "invalidatedErrors"
  /\ ncfg = h
  /\ tempFile' = 0
  /\ npc' = [npc EXCEPT ![h] = "compileErrors"]
  /\ ncfg' = 0
  /\ UNCHANGED << loadFrame, cycles, requireCache, isWatching, isFirst,
                  nuser >>

\* require(tempFile): throws when the file is not there (then removeSync,
\* warn or fatal, return)
Load(h) ==
  /\ npc[h] = "invalidated"
  /\ ncfg = h
  /\ IF tempFile = 0
       THEN /\ npc' = [npc EXCEPT ![h] = "loadError"]
            /\ ncfg' = 0
            /\ UNCHANGED << requireCache, nuser >>
       ELSE /\ requireCache' = IF requireCache # 0 THEN requireCache
                                                   ELSE tempFile
            /\ nuser' = [nuser EXCEPT ![h] = requireCache']
            /\ npc' = [npc EXCEPT ![h] = "loaded"]
            /\ ncfg' = ThreadAfterLoad(h)
  /\ UNCHANGED << loadFrame, cycles, tempFile, isWatching, isFirst >>

\* removeSync(tempFile); delete require.cache[ tempFile ]; then the handler
\* is suspended at await this.#computeConfig
Remove(h) ==
  /\ npc[h] = "loaded"
  /\ ncfg \in {h, 0}
  /\ tempFile' = 0
  /\ requireCache' = 0
  /\ npc' = [npc EXCEPT ![h] = "suspended"]
  /\ ncfg' = 0
  /\ UNCHANGED << loadFrame, cycles, isWatching, isFirst, nuser >>

\* #computeConfig settled: the rest of the handler
Resume(h) ==
  /\ npc[h] = "suspended"
  /\ ncfg = 0
  /\ npc' = [npc EXCEPT ![h] = "returned"]
  /\ isFirst' = FALSE
  /\ UNCHANGED << loadFrame, cycles, fileVars, isWatching, nuser, ncfg >>

LoadNext ==
  \/ LoadWatch
  \/ LoadEsBuild
  \/ \E h \in Handlers : Enter(h)
  \/ \E h \in Handlers : Invalidate(h)
  \/ \E h \in Handlers : CompileErrors(h)
  \/ \E h \in Handlers : Load(h)
  \/ \E h \in Handlers : Remove(h)
  \/ \E h \in Handlers : Resume(h)

LoadSpec == LoadInit /\ [][LoadNext]_vars

\* ------------------------------------------------------------------------
\* The loads of the compiled artifact in one process.  tempFile is one path
\* for the whole process and require.cache belongs to the process, so every
\* read(), of this instance or another, one-shot or watching, meets the
\* cache the earlier ones left.  npc is the statement reached, nuser the
\* loads so far: the cycle that loaded and the module require returned.

\* node runs a module that is not cached, and returns the cached one as is
Require(cache, file) == IF cache # 0 THEN cache ELSE file

ProcessInit ==
  /\ Constructed
  /\ ctx = [dev |-> FALSE, pwa |-> FALSE]
  /\ opts.watch
  /\ npc = "idle"
  /\ nctx = [dev |-> FALSE]
  /\ nopts = [host |-> NoHost, port |-> NoPort, onAddress |-> FALSE]
  /\ nuser = << >>
  /\ ncfg = 0

processFrame ==
  << ctx, opts, pc, buildErrors, isWatching, isFirst, schedVars, timeVars,
     instVars, cfg, failOnError, promise, resolved, ended, thrown, callVars,
     lastGood, addrVars, nctx, nopts, ncfg >>

\* #build: await esBuild(esbuildConfig), and its catch
OneShotEsBuild ==
  /\ npc = "idle"
  /\ cycles < MaxCycles
  /\ cycles' = cycles + 1
  /\ \/ tempFile' = cycles + 1 /\ npc' = "oneShotBuilt"
     \/ tempFile' = 0 /\ npc' = "exited"
  /\ UNCHANGED << processFrame, requireCache, nuser >>

\* #build: fnResult = require(tempFile), and its catch
OneShotRequire ==
  /\ npc = "oneShotBuilt"
  /\ \/ /\ requireCache' = Require(requireCache, tempFile)
        /\ nuser' = Append(nuser, [cycle |-> cycles,
                                    module |-> requireCache'])
        /\ npc' = "oneShotLoaded"
        /\ UNCHANGED tempFile
     \/ /\ requireCache = 0
        /\ tempFile' = 0
        /\ npc' = "exited"
        /\ UNCHANGED << requireCache, nuser >>
  /\ UNCHANGED << processFrame, cycles >>

\* #build: removeSync(tempFile)
OneShotRemove ==
  /\ npc = "oneShotLoaded"
  /\ tempFile' = 0
  /\ npc' = "idle"
  /\ UNCHANGED << processFrame, cycles, requireCache, nuser >>

\* build.onEnd of an armed watching instance
WatchOnEnd ==
  /\ npc = "idle"
  /\ cycles < MaxCycles
  /\ cycles' = cycles + 1
  /\ \/ tempFile' = cycles + 1 /\ npc' = "watchEntered"
     \/ tempFile' = tempFile /\ npc' = "watchEnteredErrors"
  /\ UNCHANGED << processFrame, requireCache, nuser >>

\* build.onEnd: delete require.cache[ tempFile ]
WatchInvalidate ==
  /\ npc \in {"watchEntered", "watchEnteredErrors"}
  /\ requireCache' = 0
  /\ npc' = IF npc = "watchEntered" THEN "watchInvalidated"
                                    ELSE "watchInvalidatedErrors"
  /\ UNCHANGED << processFrame, cycles, tempFile, nuser >>

\* build.onEnd: result.errors.length !== 0
WatchCompileErrors ==
  /\ npc = "watchInvalidatedErrors"
  /\ tempFile' = 0
  /\ npc' \in {"idle", "exited"}
  /\ UNCHANGED << processFrame, cycles, requireCache, nuser >>

\* build.onEnd: require(tempFile), and its catch
WatchRequire ==
  /\ npc = "watchInvalidated"
  /\ \/ /\ requireCache' = Require(requireCache, tempFile)
        /\ nuser' = Append(nuser, [cycle |-> cycles,
                                    module |-> requireCache'])
        /\ npc' = "watchLoaded"
        /\ UNCHANGED tempFile
     \/ /\ requireCache = 0
        /\ tempFile' = 0
        /\ npc' \in {"idle", "exited"}
        /\ UNCHANGED << requireCache, nuser >>
  /\ UNCHANGED << processFrame, cycles >>

\* build.onEnd: removeSync(tempFile); delete require.cache[ tempFile ]
WatchRemove ==
  /\ npc = "watchLoaded"
  /\ tempFile' = 0
  /\ requireCache' = 0
  /\ npc' = "idle"
  /\ UNCHANGED << processFrame, cycles, nuser >>

ProcessNext ==
  \/ OneShotEsBuild
  \/ OneShotRequire
  \/ OneShotRemove
  \/ WatchOnEnd
  \/ WatchInvalidate
  \/ WatchCompileErrors
  \/ WatchRequire
  \/ WatchRemove

ProcessSpec == ProcessInit /\ [][ProcessNext]_vars

\* ------------------------------------------------------------------------
\* The asset lists of #computeConfig (css, boot, ssr.middlewares), statement
\* by statement.  Text is a sequence of pieces; the marker '~' is a piece of
\* its own.  An asset given by the user is a string, an object (with or
\* without a path, here with a `server` flag) or null.

StringAsset(text) ==
  [t |-> "string", hasPath |-> TRUE, path |-> text, server |-> "undefined"]

ObjectAsset(text) ==
  [t |-> "object", hasPath |-> TRUE, path |-> text, server |-> "false"]

NullAsset ==
  [t |-> "null", hasPath |-> FALSE, path |-> << >>, server |-> "undefined"]

Assets ==
  { NullAsset,
    StringAsset(<< >>),
    StringAsset(<< "a" >>),
    StringAsset(<< "b" >>),
    StringAsset(<< "~" >>),
    StringAsset(<< "~", "src/css", "/", "a" >>),
    ObjectAsset(<< "a" >>),
    [ObjectAsset(<< >>) EXCEPT !.hasPath = FALSE] }

AssetLists == UNION { [1 .. n -> Assets] : n \in 0 .. MaxAssets }

\* .filter(_ => _): null and '' are falsy, objects are not
Truthy(asset) ==
  asset.t = "object" \/ (asset.t = "string" /\ asset.path # << >>)

\* asset[ 0 ] === '~' ? asset.substring(1) : prefix + `/${ asset }`
ResolvePath(prefix, text) ==
  IF text # << >> /\ Head(text) = "~" THEN Tail(text)
                                        ELSE << prefix, "/" >> \o text

parseAssetProperty(prefix, asset) ==
  IF asset.t = "string"
    THEN [hasPath |-> TRUE, path |-> ResolvePath(prefix, asset.path),
          server |-> "undefined"]
    ELSE [hasPath |-> asset.hasPath,
          path |-> IF asset.hasPath THEN ResolvePath(prefix, asset.path)
                                    ELSE << >>,
          server |-> asset.server]

\* .filter(asset => asset.path)
HasPath(asset) == asset.hasPath /\ asset.path # << >>

\* Array.prototype.lastIndexOf
IndexOf_Last(self, x) ==
  CHOOSE i \in 1 .. Len(self) :
    self[i] = x /\ \A j \in (i + 1) .. Len(self) : self[j] # x

\* Array.prototype.indexOf, for an x that is in self
IndexOf(self, x) ==
  CHOOSE i \in 1 .. Len(self) :
    self[i] = x /\ \A j \in 1 .. (i - 1) : self[j] # x

\* self.map(obj => obj.path).indexOf(value.path) === index
uniquePathFilter(value, index, self) ==
  IndexOf([i \in 1 .. Len(self) |-> self[i].path], value.path) = index

RECURSIVE FilterUnique(_, _)
\* self.filter(uniquePathFilter), from index i on
FilterUnique(self, i) ==
  IF i > Len(self) THEN << >>
  ELSE (IF uniquePathFilter(self[i], i, self) THEN << self[i] >> ELSE << >>)
         \o FilterUnique(self, i + 1)

RECURSIVE MapAssets(_, _)
MapAssets(prefix, list) ==
  IF list = << >> THEN << >>
  ELSE << parseAssetProperty(prefix, Head(list)) >>
         \o MapAssets(prefix, Tail(list))

\* list.filter(_ => _).map(parseAssetProperty(prefix))
\*   .filter(asset => asset.path).filter(uniquePathFilter)
NormalizeAssets(prefix, list) ==
  IF Len(list) > 0
    THEN FilterUnique(SelectSeq(MapAssets(prefix, SelectSeq(list, Truthy)),
                                HasPath),
                      1)
    ELSE list

AssetInit ==
  /\ Constructed
  /\ ctx = [dev |-> FALSE, pwa |-> FALSE]
  /\ ~opts.watch
  /\ npc = "merged"
  /\ nctx \in [modeName : {"spa", "ssr"}]
  /\ nopts = [host |-> NoHost, port |-> NoPort, onAddress |-> FALSE]
  /\ nuser \in AssetLists
  /\ ncfg = [css |-> nuser, boot |-> nuser, middlewares |-> nuser]

\* if (cfg.css.length > 0) ...
Css ==
  /\ npc = "merged"
  /\ ncfg' = [ncfg EXCEPT !.css = NormalizeAssets("src/css", @)]
  /\ npc' = "css"
  /\ UNCHANGED << nctx, nopts, nuser, watchVars >>

\* if (cfg.boot.length > 0) ...
Boot ==
  /\ npc = "css"
  /\ ncfg' = [ncfg EXCEPT !.boot = NormalizeAssets("boot", @)]
  /\ npc' = "boot"
  /\ UNCHANGED << nctx, nopts, nuser, watchVars >>

\* if (this.ctx.mode.ssr) { ... if (cfg.ssr.middlewares.length > 0) ... }
Middlewares ==
  /\ npc = "boot"
  /\ ncfg' = IF nctx.modeName = "ssr"
               THEN [ncfg EXCEPT !.middlewares =
                       NormalizeAssets("src-ssr/middlewares", @)]
               ELSE ncfg
  /\ npc' = "finished"
  /\ UNCHANGED << nctx, nopts, nuser, watchVars >>

AssetNext ==
  \/ Css
  \/ Boot
  \/ Middlewares

AssetSpec == AssetInit /\ [][AssetNext]_vars

\* ------------------------------------------------------------------------
\* cfg.build.rawDefine and cfg.build.env of #computeConfig, statement by
\* statement.  A table is a function from the keys it holds to values; every
\* value the user gives is "user".  ncfg holds the local rawDefine of the
\* cycle and the two tables of cfg.build.

EnvContexts ==
  [dev : BOOLEAN, modeName : {"spa", "pwa", "ssr", "electron"},
   ssrPwa : BOOLEAN]

UserEnvKeys == {"NODE_ENV", "MODE", "APP_URL", "API"}
UserDefineKeys == {"__QUASAR_SSR__", "__QUASAR_SSR_PWA__",
                   "process.env.APP_URL", "__MINE__"}

UserTables(keys) == UNION { [ks -> {"user"}] : ks \in SUBSET keys }

UserTablePairs ==
  [env : UserTables(UserEnvKeys), rawDefine : UserTables(UserDefineKeys)]

\* { ...first, ...second }
Spread(first, second) ==
  [k \in DOMAIN first \cup DOMAIN second |->
     IF k \in DOMAIN second THEN second[k] ELSE first[k]]

\* an assignment that leaves the keys the user gave alone
AssignEnv_UserWins(env, derived) == Spread(derived, env)

\* Object.assign(cfg.build.env, { ... })
AssignEnv(env, derived) == Spread(env, derived)

\* the table assigned over cfg.build.env
DerivedEnv(c, build) ==
  [NODE_ENV |-> IF c.dev THEN "development" ELSE "production",
   DEV |-> Bool(c.dev),
   PROD |-> Bool(~c.dev),
   MODE |-> c.modeName,
   APP_URL |-> build.APP_URL]

EnvInit ==
  /\ Constructed
  /\ ctx = [dev |-> FALSE, pwa |-> FALSE]
  /\ ~opts.watch
  /\ npc = "merged"
  /\ nctx \in EnvContexts
  /\ nopts = [host |-> NoHost, port |-> NoPort, onAddress |-> FALSE]
  /\ nuser \in UserTablePairs
  /\ ncfg = [local |-> << >>, rawDefine |-> nuser.rawDefine,
             env |-> nuser.env, APP_URL |-> "undefined"]

\* const rawDefine = { ... }
RawDefine ==
  /\ npc = "merged"
  /\ ncfg' = [ncfg EXCEPT !.local =
               [__QUASAR_SSR__ |-> Bool(nctx.modeName = "ssr"),
                __QUASAR_SSR_PWA__ |-> "false"]]
  /\ npc' = "rawDefine"
  /\ UNCHANGED << nctx, nopts, nuser, watchVars >>

\* the ssr block (rawDefine.__QUASAR_SSR_PWA__ = true), cfg.build.APP_URL in
\* dev, rawDefine[ 'process.env.APP_URL' ] in electron
ModeDefines ==
  /\ npc = "rawDefine"
  /\ LET l1 == IF nctx.modeName = "ssr" /\ nctx.ssrPwa
                 THEN Spread(ncfg.local, [__QUASAR_SSR_PWA__ |-> "true"])
                 ELSE ncfg.local
         l2 == IF ~nctx.dev /\ nctx.modeName = "electron"
                 THEN Spread(l1, [k \in {"process.env.APP_URL"} |-> "file"])
                 ELSE l1
     IN  ncfg' = [ncfg EXCEPT !.local = l2,
                              !.APP_URL = IF nctx.dev THEN "url" ELSE @]
  /\ npc' = "modes"
  /\ UNCHANGED << nctx, nopts, nuser, watchVars >>

\* cfg.build.rawDefine = { ...rawDefine, ...cfg.build.rawDefine }
MergeRawDefine ==
  /\ npc = "modes"
  /\ ncfg' = [ncfg EXCEPT !.rawDefine = Spread(ncfg.local, @)]
  /\ npc' = "defined"
  /\ UNCHANGED << nctx, nopts, nuser, watchVars >>

\* Object.assign(cfg.build.env, { NODE_ENV: ..., ... })
AssignBuildEnv ==
  /\ npc = "defined"
  /\ ncfg' = [ncfg EXCEPT !.env = AssignEnv(@, DerivedEnv(nctx, ncfg))]
  /\ npc' = "finished"
  /\ UNCHANGED << nctx, nopts, nuser, watchVars >>

EnvNext ==
  \/ RawDefine
  \/ ModeDefines
  \/ MergeRawDefine
  \/ AssignBuildEnv

EnvSpec == EnvInit /\ [][EnvNext]_vars

\* ------------------------------------------------------------------------
\* formatPublicPath applied to a path, and again to its result.  nuser is
\* the path given, ncfg the result of the last application.

PathPieces == {"http:", "https:", "/", "a"}

Paths == UNION { [1 .. n -> PathPieces] : n \in 0 .. MaxPathLen }

PathInit ==
  /\ Constructed
  /\ ctx = [dev |-> FALSE, pwa |-> FALSE]
  /\ ~opts.watch
  /\ npc = "given"
  /\ nctx = [dev |-> FALSE]
  /\ nopts = [host |-> NoHost, port |-> NoPort, onAddress |-> FALSE]
  /\ nuser \in Paths
  /\ ncfg = nuser

\* formatPublicPath(path)
Format ==
  /\ npc = "given"
  /\ ncfg' = formatPublicPath(ncfg)
  /\ npc' = "once"
  /\ UNCHANGED << nctx, nopts, nuser, watchVars >>

\* formatPublicPath(formatPublicPath(path))
FormatAgain ==
  /\ npc = "once"
  /\ ncfg' = formatPublicPath(ncfg)
  /\ npc' = "twice"
  /\ UNCHANGED << nctx, nopts, nuser, watchVars >>

PathNext ==
  \/ Format
  \/ FormatAgain

PathSpec == PathInit /\ [][PathNext]_vars

\* ------------------------------------------------------------------------
\* this.ctx over the cycles of one instance: the statements of #computeConfig
\* that take or write it.  nctx is the caller's Context object (mode[modeName]
\* is the mode flag set by the caller), nuser what the factory returned for
\* ssr.pwa, ncfg the cfg of the running cycle.

CtxModes == {"spa", "pwa", "ssr", "electron"}

CallerContexts ==
  { [dev |-> d, debug |-> g, modeName |-> m,
     mode |-> [ssr |-> IF m = "ssr" THEN "true" ELSE "undefined",
               pwa |-> IF m = "pwa" THEN "true" ELSE "undefined"]] :
      d \in BOOLEAN, g \in BOOLEAN, m \in CtxModes }

UserSsr == [ssrPwa : {"undefined", "false", "true"}]

\* a cycle that writes the flag whatever the mode
InSsrMode_Always(c) == TRUE

\* if (this.ctx.mode.ssr)
InSsrMode(c) == c.mode.ssr = "true"

ContextInit ==
  /\ Constructed
  /\ ctx = [dev |-> FALSE, pwa |-> FALSE]
  /\ opts.watch
  /\ npc = "start"
  /\ nctx \in CallerContexts
  /\ nopts = [host |-> NoHost, port |-> NoPort, onAddress |-> FALSE]
  /\ nuser \in UserSsr
  /\ ncfg = [ctx |-> nctx, ssrPwa |-> "undefined"]

\* const cfg = merge({ ctx: this.ctx, ... }, userCfg)
MergeCtx ==
  /\ npc = "start"
  /\ ncfg' = [ctx |-> nctx, ssrPwa |-> nuser.ssrPwa]
  /\ npc' = "merged"
  /\ UNCHANGED << nctx, nopts, nuser, watchVars >>

\* the ssr block: cfg.ssr = merge({ pwa: false, ... }, cfg.ssr); with
\* cfg.ssr.pwa, await installMissing('pwa'), which may not return; then
\* this.ctx.mode.pwa = cfg.ctx.mode.pwa = !!cfg.ssr.pwa
SsrBlock ==
  /\ npc = "merged"
  /\ IF InSsrMode(nctx)
       THEN LET pwa == IF ncfg.ssrPwa = "undefined" THEN "false"
                                                    ELSE ncfg.ssrPwa
            IN  \/ /\ nctx' = [nctx EXCEPT !.mode.pwa = Bool(pwa = "true")]
                   /\ ncfg' = [ncfg EXCEPT !.ssrPwa = pwa,
                                           !.ctx.mode.pwa = Bool(pwa = "true")]
                   /\ npc' = "returned"
                \/ /\ pwa = "true"
                   /\ ncfg' = [ncfg EXCEPT !.ssrPwa = pwa]
                   /\ npc' = "aborted"
                   /\ UNCHANGED nctx
       ELSE /\ npc' = "returned"
            /\ UNCHANGED << nctx, ncfg >>
  /\ UNCHANGED << nopts, nuser, watchVars >>

\* the next build-finished event: the factory is called again
NextFactory ==
  /\ npc \in {"returned", "aborted"}
  /\ nuser' \in UserSsr
  /\ npc' = "start"
  /\ UNCHANGED << nctx, nopts, ncfg, watchVars >>

ContextNext ==
  \/ MergeCtx
  \/ SsrBlock
  \/ NextFactory

ContextSpec == ContextInit /\ [][ContextNext]_vars

\* ------------------------------------------------------------------------
\* Properties

Callbacks == {"onAppChange", "onBuildChange"}

\* the severity a window of cycles asks for
SeverityOf(w) == IF w.changed THEN "onBuildChange" ELSE "onAppChange"

\* a build-finished event is being taken by build.onEnd in this step
Delivered == pc = "built" /\ opts.watch /\ pc' # "built"

\* a cycle after the first calls scheduleUpdate() in this step
Schedules == ended' = "scheduled" /\ pc \in {"hook", "generate"}

\* C1 (as claimed): a build-finished event that arrives less than a second
\* after one that scheduled an update is answered together with it by one
\* callback, a second after the last of them: when its own update is
\* scheduled the timer of the earlier one is still pending.
C1_OneCallbackPerBurst ==
  [][ (Schedules /\ inBurst) => (timers = 1 /\ window.n >= 1) ]_vars

\* C1 (amended): the window is counted from the calls of scheduleUpdate(),
\* at the end of the handling of an event, not from the arrivals.  The cycles
\* that call scheduleUpdate() between two firings of the debounce timer are
\* answered by exactly one callback, invoked when the timer fires,
\* DebounceTicks after the last of these calls: onBuildChange if one of them
\* was pipeline-affecting, else onAppChange; the pending severity is cleared
\* by the firing; while the window is open one timer is pending and no
\* callback is invoked.
C1_OneCallbackPerWindow ==
  [][ /\ (window.n >= 1 /\ window'.n = 0) =>
           /\ calls' = calls + 1
           /\ lastCall'.fn = SeverityOf(window)
           /\ lastCall'.n = window.n
           /\ updateFn' = "null"
           /\ timers' = 0
           /\ timerLeft = 0
      /\ Schedules => (timerLeft' = DebounceTicks /\ window'.n = window.n + 1)
      /\ (window'.n >= 1) => (timers' = 1 /\ calls' = calls)
      /\ (calls' # calls) => (window.n >= 1 /\ window'.n = 0)
    ]_vars

\* C1 witness: a window of two cycles, the first pipeline-affecting and the
\* second not, was answered by one onBuildChange
C1_Witness ==
  /\ calls = 1
  /\ lastCall.n = 2
  /\ lastCall.fn = "onBuildChange"
  /\ webpackConfChanged = "false"
  /\ updateFn = "null"

\* C2: the pending severity is escalation-only: once it is onBuildChange, the
\* only step that changes it is the firing of the timer, which invokes the
\* callback and resets it.
C2_EscalationOnly ==
  [][ updateFn = "onBuildChange" =>
        \/ updateFn' = "onBuildChange"
        \/ updateFn' = "null" /\ calls' = calls + 1 /\ timers' = timers - 1
                              /\ lastCall'.fn = "onBuildChange"
    ]_vars

\* C2 witness: a cycle that is not pipeline-affecting has scheduled its update
\* while onBuildChange was pending, and onBuildChange is still pending
C2_Witness ==
  /\ updateFn = "onBuildChange"
  /\ ended = "scheduled"
  /\ webpackConfChanged = "false"
  /\ window.n = 2
  /\ timers = 1

\* C3: as long as watch() has not been called no timer is pending, no
\* severity is stored and no callback has been invoked.
C3_UnarmedSilent ==
  ~isWatching => (timers = 0 /\ calls = 0 /\ updateFn = "undefined"
                  /\ window.n = 0)

\* C3 witness: a build-finished event after the first was handled before
\* watch()
C3_Witness ==
  /\ ~isWatching
  /\ ~isFirst
  /\ cycles >= 2
  /\ pc = "idle"
  /\ ended = "ignored"

\* C4 (as claimed): every build-finished event of a successful compilation
\* that arrives before watch() is processed: the artifact is loaded and
\* removed and the handler goes on to the Config Normalizer.
C4_UnarmedProcessed ==
  [][ (Delivered /\ ~isWatching /\ ~buildErrors) =>
        (ended' # "ignored" /\ tempFile' = 0)
    ]_vars

\* C4 (amended): before watch(), only a build-finished event taken while
\* isFirst holds is processed; a later one is ignored whole: the artifact is
\* neither loaded nor removed, the Config Normalizer does not run, and the
\* canonical configuration, the pipeline configuration, the snapshot
\* baseline, the address cache and the scheduler are left as they were.
C4_UnarmedOnlyFirst ==
  [][ (Delivered /\ ~isWatching) =>
        IF isFirst
          THEN ended' # "ignored" /\ tempFile' = 0
          ELSE /\ ended' = "ignored"
               /\ pc' = "idle"
               /\ UNCHANGED << instVars, fileVars, schedVars, addrVars,
                               lastGood, isFirst, promise, resolved, calls >>
    ]_vars

\* C4 witness: a second build-finished event was ignored before watch(), the
\* configuration being the first cycle's
C4_Witness ==
  /\ ~isWatching
  /\ ended = "ignored"
  /\ cycles = 2
  /\ ~buildErrors
  /\ quasarConf.id = 1
  /\ lastGood.quasarConf = 1

\* C5 (as claimed): the temporary compiled artifact does not exist when a
\* call into the instance or a build-finished handler has completed.
C5_NoArtifactLeft ==
  (pc \in {"idle", "done", "dead"}) => (tempFile = 0)

\* a Phase A error is being answered in this step
PhaseAStep ==
  /\ pc \in {"built", "factory"}
  /\ ended' \in {"phaseA", "phaseAFatal"}

\* C6 (as claimed): a Phase A error of a cycle with failOnError ends the
\* process with no configuration produced; the same error in a later cycle
\* leaves the canonical configuration, the pipeline configuration and the
\* snapshot baseline those of the last successful cycle, and nothing but a
\* warning comes of it.
C6_PhaseASplit ==
  [][ PhaseAStep =>
        IF ended' = "phaseAFatal"
          THEN /\ pc' = "dead"
               /\ UNCHANGED << quasarConf, webpackConf, promise, resolved >>
          ELSE /\ pc' = "idle"
               /\ quasarConf'.id = lastGood.quasarConf
               /\ webpackConf'.of = lastGood.webpackConf
               /\ configSnapshot' = lastGood.configSnapshot
               /\ thrown' = "none"
    ]_vars

\* C7 (as claimed): when #computeConfig returns no configuration in a cycle
\* after the first, the handler stops normally: no error of its own, no
\* update scheduled, the timer and the pending severity left alone.
C7_StopsNormally ==
  [][ (PhaseAStep /\ ended' = "phaseA") =>
        (thrown' = "none" /\ pc' = "idle" /\ UNCHANGED schedVars)
    ]_vars

\* C8 (as claimed): once the first cycle of a watch session is over, a
\* NetworkError (opts.onAddress resolved to null), a ManifestError (empty
\* icon list) or a ConfigValueError (invalid workbox mode) neither ends the
\* process nor escapes the build-finished handler.
C8_LaterErrorsOnlyWarn ==
  (opts.watch /\ ~isFirst) => (thrown # "NETWORK_ERROR" /\ ended # "exit")

\* the ways a cycle ends before the store of this.quasarConf
AbortedBeforeStore ==
  \/ ended \in {"phaseA", "phaseAFatal", "exit"}
  \/ ended = "threw" /\ thrown \in {"NETWORK_ERROR", "HookError", "DeriveError"}

\* C9: this.quasarConf is undefined or a finished configuration; it is
\* replaced only by the step that ran every derivation of the running cycle,
\* with that cycle's cfg; what read() resolves with and what a callback finds
\* is finished; a cycle that ended in Phase A, on a NETWORK_ERROR, on a hook
\* error, on a derivation error or on process.exit has not replaced it.
C9_NoPartialConfiguration ==
  /\ [](quasarConf = UndefConf \/ quasarConf.derived)
  /\ [](promise = "resolved" => resolved.derived)
  /\ [](calls > 0 => quasarConf.derived)
  /\ []((AbortedBeforeStore /\ pc \in {"idle", "done", "dead"})
           => quasarConf.id < cycles)
  /\ [][ quasarConf' # quasarConf =>
           /\ pc = "hook"
           /\ pc' \in {"generate", "idle", "done"}
           /\ quasarConf'.derived
           /\ quasarConf'.id = cycles
       ]_vars

\* C9 witness: a later cycle was given up after the hook run while the first
\* cycle's finished configuration is stored
C9_Witness ==
  /\ ended = "threw"
  /\ thrown = "DeriveError"
  /\ cycles = 2
  /\ quasarConf.id = 1
  /\ quasarConf.derived
  /\ configSnapshot # lastGood.configSnapshot

\* the step of #computeConfig that resolves the address in development mode
AddressStep == pc = "factory" /\ pc' \in {"hook", "address"} /\ ctx.dev

\* C10 (as claimed): after a negotiation succeeded for the requested address
\* R with result T, every later cycle that requests R does not call
\* opts.onAddress and takes T.
C10_EveryLaterCycleReuses ==
  [][ AddressStep =>
        \A x \in negotiated :
          x.from = addr' =>
            /\ ~onAddressCalled'
            /\ pc' = "hook"
            /\ cfg'.host = x.to.host /\ cfg'.port = x.to.port
    ]_vars

\* C10 (amended): this.address holds the last negotiation alone.  A cycle in
\* development mode that requests the address of that negotiation does not
\* call opts.onAddress, takes its result and leaves the cache as it is; any
\* other cycle (no cached pair, or another requested address, also one
\* negotiated before the last negotiation) goes to opts.onAddress when there
\* is one, and takes the requested address itself when there is none.
C10_LastNegotiationReused ==
  [][ AddressStep =>
        IF address.set /\ address.from = addr'
          THEN /\ ~onAddressCalled'
               /\ pc' = "hook"
               /\ cfg'.host = address.to.host /\ cfg'.port = address.to.port
               /\ [from |-> addr', to |-> address.to] \in negotiated
               /\ UNCHANGED << address, negotiated >>
          ELSE /\ onAddressCalled' = opts.onAddress
               /\ pc' = (IF opts.onAddress THEN "address" ELSE "hook")
               /\ cfg'.host = addr'.host /\ cfg'.port = addr'.port
    ]_vars

\* C10 witness: a later cycle took a negotiated address that differs from the
\* one it requested, without calling opts.onAddress
C10_Witness ==
  /\ pc = "hook"
  /\ cycles >= 2
  /\ ~onAddressCalled
  /\ address.set
  /\ address.from = addr
  /\ address.to # addr
  /\ cfg.host = address.to.host
  /\ cfg.port = address.to.port

\* C11: in development mode the requested host is opts.host if set, else the
\* configured devServer.host if set, else 0.0.0.0; the requested port is
\* opts.port if set, else the configured devServer.port if set, else 8080;
\* with no negotiation callback the requested address is the resolved one,
\* 0.0.0.0:8080 when nothing is set anywhere.
C11_Precedence ==
  (nctx.dev /\ (npc = "requested" \/ (npc = "hook" /\ ~nopts.onAddress))) =>
    /\ ncfg.host = (IF nopts.host # NoHost THEN nopts.host
                    ELSE IF nuser.host # NoHost THEN nuser.host
                    ELSE "0.0.0.0")
    /\ ncfg.port = (IF nopts.port # NoPort THEN nopts.port
                    ELSE IF nuser.port # NoPort THEN nuser.port
                    ELSE 8080)
    /\ (nopts.host = NoHost /\ nopts.port = NoPort /\ nuser.host = NoHost
          /\ nuser.port = NoPort) => ncfg = [host |-> "0.0.0.0", port |-> 8080]

\* C11 witness: opts.host wins over a configured host while the port, set
\* nowhere, is the default, and no callback changed the address
C11_Witness ==
  /\ npc = "hook"
  /\ nctx.dev
  /\ ~nopts.onAddress
  /\ nopts.host = "h2"
  /\ nuser.host = "h1"
  /\ nopts.port = NoPort
  /\ nuser.port = NoPort
  /\ ncfg = [host |-> "h2", port |-> 8080]

\* C12: a cycle in which opts.onAddress resolves to null ends on a
\* NETWORK_ERROR without reaching the hook run or createWebpackConfig, and no
\* step of it (build.onEnd, the factory, the negotiation) has changed
\* this.address, #configSnapshot, #webpackConfChanged, this.quasarConf or
\* this.webpackConf.
C12_NetworkErrorAborts ==
  [][ /\ (pc = "built" \/ (pc = "factory" /\ pc' = "address")) =>
           UNCHANGED instVars
      /\ (pc = "address" /\ thrown' = "NETWORK_ERROR") =>
           /\ UNCHANGED instVars
           /\ ended' = "threw"
           /\ pc' \in {"idle", "done"}
    ]_vars

\* C12 witness: a later cycle was aborted by a NETWORK_ERROR while an address
\* pair was cached and a configuration stored
C12_Witness ==
  /\ thrown = "NETWORK_ERROR"
  /\ ended = "threw"
  /\ cycles >= 2
  /\ address.set
  /\ address.from # addr
  /\ quasarConf.id = 1
  /\ webpackConf.of = 1
  /\ configSnapshot # <<>>

\* C13 (as claimed): the second of two consecutive cycles is classified
\* pipeline-affecting exactly when the two post-hook configurations differ in
\* a whitelisted subtree.
C13_SnapshotClassifies ==
  (npc = "snapshot" /\ ncfg = nuser[2] /\ nuser[2] # nuser[1]) =>
    (webpackConfChanged = "true" <=> Whitelisted(nuser[1]) # Whitelisted(nuser[2]))

\* the running cycle has completed every derivation in this step
Completes == pc = "hook" /\ quasarConf' # quasarConf

\* C14 (as claimed): createWebpackConfig is called in a cycle exactly when
\* the cycle completes its derivations and is a one-shot read, a first cycle
\* (isFirst) or one whose #webpackConfChanged is true; a completed cycle that
\* does not call it keeps this.webpackConf.
C14_GeneratorIff ==
  [][ /\ (pc' = "generate" /\ pc # "generate") => Completes
      /\ Completes =>
           /\ pc' = "generate" <=>
                (~opts.watch \/ isFirst \/ webpackConfChanged' = "true")
           /\ pc' # "generate" => UNCHANGED webpackConf
    ]_vars

\* C15: in the finished configuration, with no public path configured or in
\* a mode other than spa, pwa and ssr, build.publicPath is '' when the final
\* vueRouterMode is hash and '/' when it is history; in spa, pwa and ssr a
\* configured public path is kept, normalized: it ends with '/', it starts
\* with '/' unless it is an http(s) URL, and nothing else is added to it.
C15_PublicPath ==
  npc = "finished" =>
    IF nuser.publicPath = <<>> \/ nctx.modeName \notin {"spa", "pwa", "ssr"}
      THEN /\ ncfg.vueRouterMode = "hash" => ncfg.publicPath = <<>>
           /\ ncfg.vueRouterMode = "history" => ncfg.publicPath = <<"/">>
      ELSE /\ ncfg.publicPath[Len(ncfg.publicPath)] = "/"
           /\ ncfg.publicPath[1] \in {"/", "http:"}
           /\ ncfg.publicPath \in
                { nuser.publicPath, Append(nuser.publicPath, "/"),
                  <<"/">> \o nuser.publicPath,
                  <<"/">> \o Append(nuser.publicPath, "/") }

\* C15 witness: in cordova mode a configured public path was replaced by the
\* fallback of the forced hash mode although history was configured
C15_Witness ==
  /\ npc = "finished"
  /\ nctx.modeName = "cordova"
  /\ nuser.publicPath = <<"app">>
  /\ nuser.vueRouterMode = "history"
  /\ ncfg.vueRouterMode = "hash"
  /\ ncfg.publicPath = <<>>

\* C16: in every finished configuration, whatever build options were
\* configured: in development mode minify and gzip are false; in debug mode
\* sourceMap is true; in ssr mode vueRouterMode is history and gzip is false;
\* in cordova, capacitor, electron and bex mode htmlFilename is index.html,
\* vueRouterMode is hash and gzip is false.
C16_ModeOverrides ==
  npc = "finished" =>
    /\ nctx.dev => (ncfg.minify = "false" /\ ncfg.gzip = "false")
    /\ nctx.debug => ncfg.sourceMap = "true"
    /\ nctx.modeName = "ssr" =>
         (ncfg.vueRouterMode = "history" /\ ncfg.gzip = "false")
    /\ nctx.modeName \in {"cordova", "capacitor", "electron", "bex"} =>
         /\ ncfg.htmlFilename = "index.html"
         /\ ncfg.vueRouterMode = "hash"
         /\ ncfg.gzip = "false"

\* C16 witness: an electron debug build configured with minify, gzip, no
\* source map, history mode and its own html file name was overridden
C16_Witness ==
  /\ npc = "finished"
  /\ nctx.modeName = "electron"
  /\ nctx.debug
  /\ ~nctx.dev
  /\ nuser.minify = "true"
  /\ nuser.gzip = "true"
  /\ nuser.sourceMap = "false"
  /\ nuser.vueRouterMode = "history"
  /\ nuser.htmlFilename = "app.html"
  /\ ncfg.sourceMap = "true"
  /\ ncfg.gzip = "false"
  /\ ncfg.vueRouterMode = "hash"
  /\ ncfg.htmlFilename = "index.html"

C18_BaselineOfLastGood ==
  (opts.watch /\ pc \in {"idle", "built"} /\ lastGood.quasarConf # 0) =>
    configSnapshot = lastGood.configSnapshot

\* C19: the hook run is started once in a cycle, by the step that ends the
\* address resolution (the factory's result passed Phase A, and the
\* negotiation, when there is one, has settled), with the snapshot not yet
\* taken; a cycle rejected in Phase A or aborted by a NETWORK_ERROR does not
\* start it; the snapshot and #webpackConfChanged are written only once the
\* hook run has settled, from the cfg the hooks left, which is the cfg that is
\* then stored.
C19_HookOnceBeforeSnapshot ==
  [][ /\ (pc' = "hook" /\ pc # "hook") =>
           /\ pc \in {"factory", "address"}
           /\ pc = "address" => onAddressCalled
           /\ (pc = "factory" /\ ctx.dev /\ opts.onAddress) =>
                (address.set /\ address.from = addr')
           /\ UNCHANGED << configSnapshot, webpackConfChanged >>
      /\ (pc' = "factory" /\ pc # "factory") =>
           (pc = "built" /\ ~onAddressCalled')
      /\ (pc' = "address" /\ pc # "address") => pc = "factory"
      /\ (pc \in {"built", "factory", "address"}
            /\ (ended' \in {"phaseA", "phaseAFatal"}
                  \/ thrown' = "NETWORK_ERROR")) => pc' # "hook"
      /\ (configSnapshot' # configSnapshot
            \/ webpackConfChanged' # webpackConfChanged) => pc = "hook"
      /\ (pc = "hook" /\ opts.watch /\ pc' # "hook" /\ thrown' # "HookError") =>
           \E hooked \in {cfg, [cfg EXCEPT !.w = 1 - @]} :
             /\ configSnapshot' = Encode(hooked)
             /\ quasarConf' # quasarConf => quasarConf' = Finished(hooked)
    ]_vars

\* C19 witness: in a second cycle the hook run is awaited after a negotiation
\* that changed the port, and the snapshot is still the first cycle's
C19_Witness ==
  /\ pc = "hook"
  /\ cycles = 2
  /\ onAddressCalled
  /\ cfg.port = addr.port + 1
  /\ configSnapshot = lastGood.configSnapshot
  /\ configSnapshot # Encode(cfg)

\* C20 (as claimed): in a watch session the promise of read() is resolved
\* once, by a cycle that runs as the first one (isFirst, failOnError true),
\* with the canonical and the pipeline configuration of that cycle, and that
\* cycle leaves the scheduler alone; once resolved the promise and its value
\* stay; a cycle started after the first completed runs with failOnError
\* false.
C20_ResolvedOnceByFirst ==
  [][ /\ (opts.watch /\ promise # "resolved" /\ promise' = "resolved") =>
           /\ isFirst /\ ~isFirst'
           /\ failOnError
           /\ resolved'.derived
           /\ resolved'.quasarConf = cycles
           /\ resolved'.webpackConf = cycles
           /\ UNCHANGED schedVars
      /\ promise = "resolved" => UNCHANGED << promise, resolved >>
      /\ (opts.watch /\ pc = "built" /\ pc' = "factory") =>
           failOnError' = isFirst
      /\ (opts.watch /\ isFirst) => UNCHANGED schedVars
    ]_vars

\* the handler is between its entry and its removal of the artifact
InSection(h) ==
  npc[h] \in {"entered", "enteredErrors", "invalidated", "invalidatedErrors",
              "loaded"}

\* C21: whatever handlers are suspended inside #computeConfig, at most one
\* handler is between its cache invalidation and its removal of the artifact,
\* it holds the thread, and a handler loads the artifact only when every
\* handler that loaded it before has removed it.
C21_OneAtATime ==
  /\ [](\A h \in Handlers : InSection(h) =>
          /\ ncfg = h
          /\ \A g \in Handlers \ {h} : ~InSection(g))
  /\ [][ \A h \in Handlers :
           (npc[h] = "invalidated" /\ npc'[h] = "loaded") =>
             \A g \in Handlers \ {h} :
               nuser[g] # 0 => npc[g] \in {"suspended", "returned"}
       ]_vars

\* C21 witness: the second handler has loaded its artifact while the first
\* one is suspended inside #computeConfig
C21_Witness ==
  /\ npc[1] = "suspended"
  /\ npc[2] = "loaded"
  /\ nuser[1] = 1
  /\ nuser[2] = 2

\* C22: every load of the compiled artifact, one-shot or continuous, returns
\* the module compiled in that cycle, also when the path was loaded earlier
\* in the same process.
C22_FreshLoad ==
  \A i \in 1 .. Len(nuser) : nuser[i].module = nuser[i].cycle

\* the handler warns and returns in this step: a later cycle whose compile
\* or load failed
Warns == Delivered /\ ended' \in {"compileWarn", "loadWarn"}

\* C23: a later-cycle event whose compilation or load failed leaves the
\* scheduler alone (timer, pending severity) and also the snapshot baseline,
\* the flag and the canonical and pipeline configurations; an update that was
\* pending is then delivered with the severity it had.
C23_FailureLeavesScheduler ==
  /\ [][ Warns => UNCHANGED << schedVars, configSnapshot, webpackConfChanged,
                               quasarConf, webpackConf >> ]_vars
  /\ [][ (ended \in {"compileWarn", "loadWarn"} /\ calls' # calls) =>
           lastCall'.fn = updateFn /\ updateFn \in Callbacks ]_vars

\* C23 witness: the handler has warned about a failed load while a heavy
\* update is pending on the timer
C23_Witness ==
  /\ ended = "loadWarn"
  /\ timers = 1
  /\ updateFn = "onBuildChange"

\* C24 (as claimed): once a cycle has returned a pipeline configuration,
\* when a cycle of a watch session completes with #webpackConfChanged false,
\* and when onAppChange is called, this.webpackConf was generated from a
\* configuration whose snapshot is that of this.quasarConf.
C24_PipelineMatchesCanonical ==
  [][ lastGood.webpackConf # 0 =>
        /\ (opts.watch /\ Completes /\ webpackConfChanged' = "false") =>
             webpackConf'.snapshot = Encode(quasarConf')
        /\ (calls' # calls /\ lastCall'.fn = "onAppChange") =>
             webpackConf.snapshot = Encode(quasarConf)
    ]_vars

\* the path the claim gives an entry of the input
ExpectedPath(prefix, asset) ==
  IF Head(asset.path) = "~"
    THEN SubSeq(asset.path, 2, Len(asset.path))
    ELSE << prefix >> \o << "/" >> \o asset.path

\* the entries of the input that are not falsy and give a path
Given(list) ==
  { i \in 1 .. Len(list) :
      /\ list[i].t # "null"
      /\ list[i].hasPath
      /\ list[i].t = "string" => list[i].path # << >>
      /\ list[i].path # << "~" >> }

\* out is the normalized form of the list `given` under prefix
NormalizedAs(out, given, prefix) ==
  /\ \A k \in 1 .. Len(out) : out[k].hasPath /\ out[k].path # << >>
  /\ \A k, l \in 1 .. Len(out) : out[k].path = out[l].path => k = l
  /\ \E src \in [1 .. Len(out) -> Given(given)] :
       /\ \A k \in 1 .. Len(out) :
            /\ out[k].path = ExpectedPath(prefix, given[src[k]])
            /\ out[k].server = given[src[k]].server
            /\ \A j \in Given(given) :
                 ExpectedPath(prefix, given[j]) = out[k].path => src[k] <= j
       /\ \A k, l \in 1 .. Len(out) : k < l => src[k] < src[l]
       /\ \A j \in Given(given) :
            \E k \in 1 .. Len(out) :
              out[k].path = ExpectedPath(prefix, given[j])

C26_UserWins ==
  npc = "finished" =>
    /\ \A k \in DOMAIN nuser.rawDefine : ncfg.rawDefine[k] = nuser.rawDefine[k]
    /\ \A k \in DOMAIN nuser.env : ncfg.env[k] = nuser.env[k]

\* C26 (amended): in the finished raw define table every key the user gave
\* holds the user's value and the other derived keys hold the derived one;
\* in the finished env table the keys derived from the Context hold the
\* derived value whatever the user gave, and the user's other keys are kept.
C26_UserWinsInRawDefine ==
  npc = "finished" =>
    /\ \A k \in DOMAIN nuser.rawDefine : ncfg.rawDefine[k] = nuser.rawDefine[k]
    /\ \A k \in DOMAIN ncfg.local \ DOMAIN nuser.rawDefine :
         ncfg.rawDefine[k] = ncfg.local[k]
    /\ ncfg.env.NODE_ENV = (IF nctx.dev THEN "development" ELSE "production")
    /\ ncfg.env.DEV = Bool(nctx.dev)
    /\ ncfg.env.PROD = Bool(~nctx.dev)
    /\ ncfg.env.MODE = nctx.modeName
    /\ ncfg.env.APP_URL = ncfg.APP_URL
    /\ \A k \in DOMAIN nuser.env \ {"NODE_ENV", "DEV", "PROD", "MODE", "APP_URL"} :
         ncfg.env[k] = nuser.env[k]

\* C26 witness: the user gave NODE_ENV, MODE and a key of their own in env and
\* __QUASAR_SSR__ in rawDefine, and the tables are finished
C26_Witness ==
  /\ npc = "finished"
  /\ DOMAIN nuser.env = {"NODE_ENV", "MODE", "API"}
  /\ "__QUASAR_SSR__" \in DOMAIN nuser.rawDefine
  /\ nctx.modeName = "ssr"
  /\ ncfg.rawDefine["__QUASAR_SSR__"] = "user"
  /\ ncfg.env.MODE = "ssr"
  /\ ncfg.env.API = "user"

\* the text begins with http:// or https://
Absolute(text) ==
  /\ Len(text) >= 3
  /\ SubSeq(text, 1, 3) \in { << "http:", "/", "/" >>, << "https:", "/", "/" >> }

\* the text with a '/' added at its end unless it has one
Closed(text) ==
  IF text[Len(text)] = "/" THEN text ELSE text \o << "/" >>

\* C27 (as claimed): formatPublicPath returns an absolute http(s) URL
\* unchanged.
C27_UrlUnchanged ==
  (npc = "once" /\ Absolute(nuser)) => ncfg = nuser

\* C27 (amended): formatPublicPath maps the empty path to '' and every other
\* path to a result that ends with '/'; an absolute http(s) URL gets nothing
\* but that final '/' when it lacks it; any other path also gets a leading
\* '/' when it lacks it; a second application changes nothing.
C27_Normalization ==
  /\ [](npc = "once" =>
          /\ nuser = << >> => ncfg = << >>
          /\ nuser # << >> => ncfg[Len(ncfg)] = "/"
          /\ (nuser # << >> /\ Absolute(nuser)) => ncfg = Closed(nuser)
          /\ (nuser # << >> /\ ~Absolute(nuser)) =>
               /\ Head(ncfg) = "/"
               /\ ncfg = (IF Head(nuser) = "/" THEN << >> ELSE << "/" >>)
                            \o Closed(nuser))
  /\ [][npc = "once" => ncfg' = ncfg]_vars

\* C27 witness: an https URL without a final '/' has been normalized twice
C27_Witness ==
  /\ npc = "twice"
  /\ nuser = << "https:", "/", "/", "a" >>
  /\ ncfg = << "https:", "/", "/", "a", "/" >>

\* C28: no step of a cycle changes a field of the Context other than
\* mode.pwa; mode.pwa is written only by the ssr block of a cycle in ssr
\* mode, and a cycle in ssr mode that gets through that block leaves it set
\* to whether ssr.pwa is enabled.
C28_ContextFrame ==
  [][ /\ nctx'.dev = nctx.dev
      /\ nctx'.debug = nctx.debug
      /\ nctx'.modeName = nctx.modeName
      /\ nctx'.mode.ssr = nctx.mode.ssr
      /\ nctx'.mode.pwa # nctx.mode.pwa =>
           (nctx.modeName = "ssr" /\ npc = "merged")
      /\ nctx.modeName # "ssr" => nctx' = nctx
      /\ (npc = "merged" /\ npc' = "returned" /\ nctx.modeName = "ssr") =>
           nctx'.mode.pwa = (IF nuser.ssrPwa = "true" THEN "true" ELSE "false")
    ]_vars

\* C28 witness: a cycle in ssr mode whose ssr.pwa is enabled has passed the
\* ssr block and mode.pwa is true
C28_Witness ==
  /\ npc = "returned"
  /\ nctx.modeName = "ssr"
  /\ nuser.ssrPwa = "true"
  /\ nctx.mode.pwa = "true"
  /\ ncfg.ctx = nctx

====
